---- MODULE Spec2Model ----
(***************************************************************************)
(* Similarity-graph store (project/phaseIII/graph.py) and the k-nearest    *)
(* neighbour construction of Loader.make_graphs (project/phaseIII/         *)
(* loader.py).                                                             *)
(*                                                                         *)
(* The igraph graph held by Graph.__graph__ is modelled by its vertex      *)
(* sequence vs (attributes name, cluster) and its edge sequence es         *)
(* (source and target vertex positions, attribute weight).  Positions are  *)
(* 1-based here; an igraph Edge object is a position into es, so deleting  *)
(* an edge renumbers every later one.                                      *)
(***************************************************************************)
EXTENDS Integers, Sequences, FiniteSets, TLC

VARIABLES
    vs,          \* Graph.__graph__.vs : sequence of [name, cluster]
    es,          \* Graph.__graph__.es : sequence of [source, target, weight]
    clusters,    \* Graph.clusters     : dict, as a sequence of [label, members] in insertion order
    files,       \* the file system    : file name -> pickled content
    call,        \* the last call made : [op, arg]
    ret,         \* its outcome        : [status, value]
    edge_dict,   \* Loader.make_graphs : the top-k mapping after the last call
    graphs       \* Loader.make_graphs : per neighbour count, the mapping handed to the Graph

vars == <<vs, es, clusters, files, call, ret, edge_dict, graphs>>

----------------------------------------------------------------------------
\* Bounds of the model.

MaxVertices == 2
MaxEdges == 3
MaxBatch == 2
MaxK == 2

Names == {"foo", "bar"}
Weights == {1, 2}

None == "None"
NoNode == 0

\* The sequences over S of length lo..hi.
SeqsOf(S, lo, hi) == UNION {[1..n -> S] : n \in lo..hi}

\* Edge(start, end, weight)
Edge == [start : Names, end : Names, weight : Weights]

Ok(value) == [status |-> "ok", value |-> value]
Raise(error) == [status |-> error, value |-> <<>>]

----------------------------------------------------------------------------
\* Low level methods of Graph.

\* graph.vs.select(name=name): the positions of the vertices so named.
select(V, name) == {i \in 1..Len(V) : V[i].name = name}

\* Raises ValueError (NoNode) unless exactly one vertex has the name.
__get_node_by_name__(V, name) ==
    IF Cardinality(select(V, name)) # 1
    THEN NoNode
    ELSE CHOOSE i \in select(V, name) : TRUE

\* A faulty variant of __add_edges__: each edge is translated and inserted in turn,
\* so the edges before an unknown endpoint stay in the graph.
RECURSIVE add_edges_one_by_one(_, _, _, _)
add_edges_one_by_one(V, E, edges, weights) ==
    IF edges = <<>> THEN [status |-> "ok", es |-> E]
    ELSE LET s == __get_node_by_name__(V, Head(edges)[1])
             t == __get_node_by_name__(V, Head(edges)[2])
         IN  IF s = NoNode \/ t = NoNode
             THEN [status |-> "ValueError", es |-> E]
             ELSE add_edges_one_by_one(V,
                      Append(E, [source |-> s, target |-> t, weight |-> Head(weights)]),
                      Tail(edges), Tail(weights))

\* A faulty variant of __add_edges__: the weights of the batch are put before
\* those the graph already has.
add_edges_weights_first(V, E, edges, weights) ==
    LET translated == [i \in 1..Len(edges) |->
                          <<__get_node_by_name__(V, edges[i][1]),
                            __get_node_by_name__(V, edges[i][2])>>]
    IN  IF \E i \in 1..Len(edges) : NoNode \in {translated[i][1], translated[i][2]}
        THEN [status |-> "ValueError", es |-> E]
        ELSE LET temp_weights == weights \o [i \in 1..Len(E) |-> E[i].weight]
                 ends == [i \in 1..Len(E) |-> <<E[i].source, E[i].target>>] \o translated
             IN  [status |-> "ok",
                  es |-> [i \in 1..Len(ends) |->
                            [source |-> ends[i][1], target |-> ends[i][2],
                             weight |-> temp_weights[i]]]]

\* edges: sequence of <<start, end>> names; weights: the companion list.
\* The names are translated first (any failure raises before the graph is
\* touched); then the weight list of the graph is extended and written back.
__add_edges__(V, E, edges, weights) ==
    LET translated == [i \in 1..Len(edges) |->
                          <<__get_node_by_name__(V, edges[i][1]),
                            __get_node_by_name__(V, edges[i][2])>>]
    IN  IF \E i \in 1..Len(edges) : NoNode \in {translated[i][1], translated[i][2]}
        THEN [status |-> "ValueError", es |-> E]
        ELSE LET num_edges == Len(E)
                 temp_weights == (IF num_edges = 0 THEN <<>>
                                  ELSE [i \in 1..num_edges |-> E[i].weight]) \o weights
                 ends == [i \in 1..num_edges |-> <<E[i].source, E[i].target>>] \o translated
             IN  [status |-> "ok",
                  es |-> [i \in 1..Len(ends) |->
                            [source |-> ends[i][1], target |-> ends[i][2],
                             weight |-> temp_weights[i]]]]

----------------------------------------------------------------------------
\* Interface methods of Graph.

\* What a batch of Edge objects is to the graph it is added to: an endpoint
\* that names no vertex, a (start, end) pair the graph already holds or that
\* the batch repeats.
HasUnknownEndpoint(V, edges) ==
    \E i \in 1..Len(edges) :
        select(V, edges[i].start) = {} \/ select(V, edges[i].end) = {}

HasDuplicatePair(V, E, edges) ==
    \/ \E i, j \in 1..Len(edges) :
          i < j /\ edges[i].start = edges[j].start /\ edges[i].end = edges[j].end
    \/ \E i \in 1..Len(edges), e \in 1..Len(E) :
          V[E[e].source].name = edges[i].start /\ V[E[e].target].name = edges[i].end

add_edges(edges) ==
    LET new_edges == [i \in 1..Len(edges) |-> <<edges[i].start, edges[i].end>>]
        weights == [i \in 1..Len(edges) |-> edges[i].weight]
        r == __add_edges__(vs, es, new_edges, weights)
    IN  /\ es' = r.es
        /\ call' = [op |-> "add_edges",
                    arg |-> [n |-> Len(edges),
                             unknown |-> HasUnknownEndpoint(vs, edges),
                             duplicate |-> HasDuplicatePair(vs, es, edges),
                             weights |-> weights]]
        /\ ret' = IF r.status = "ok" THEN Ok(<<>>) ELSE Raise(r.status)
        /\ UNCHANGED <<vs, clusters, files, edge_dict, graphs>>

\* igraph's add_vertex appends a vertex whatever its name: no check is made.
add_vertices_to(V, vertices) ==
    V \o [i \in 1..Len(vertices) |-> [name |-> vertices[i], cluster |-> None]]

add_vertices(vertices) ==
    /\ vs' = add_vertices_to(vs, vertices)
    /\ call' = [op |-> "add_vertices", arg |-> vertices]
    /\ ret' = Ok(<<>>)
    /\ UNCHANGED <<es, clusters, files, edge_dict, graphs>>

----------------------------------------------------------------------------
\* Graph.subgraph

\* vertex.outdegree, read as the number of edges leaving position v.
outdegree(E, v) == Cardinality({i \in 1..Len(E) : E[i].source = v})

\* graph.incident(vertex, mode=OUT): the ids of the edges leaving v, in the
\* order of igraph's out-index (by target vertex, then by edge id).
RECURSIVE SortBy(_, _)
SortBy(S, E) ==
    IF S = {} THEN <<>>
    ELSE LET first == CHOOSE i \in S : \A j \in S :
                          \/ E[i].target < E[j].target
                          \/ E[i].target = E[j].target /\ i <= j
         IN  <<first>> \o SortBy(S \ {first}, E)

incident(E, v) == SortBy({i \in 1..Len(E) : E[i].source = v}, E)

\* min(edges, key=weight): the first of the handles of least weight.
min_edge(E, handles) ==
    LET p == CHOOSE p \in 1..Len(handles) :
                 /\ \A q \in 1..Len(handles) : E[handles[p]].weight <= E[handles[q]].weight
                 /\ \A q \in 1..(p - 1) : E[handles[q]].weight > E[handles[p]].weight
    IN  handles[p]

\* Edge.delete(): the edge at position i goes, the later ones move up.
delete(E, i) == [j \in 1..(Len(E) - 1) |-> IF j < i THEN E[j] ELSE E[j + 1]]

\* The two readings of `vertex.outdegree > out_degree`.  In python-igraph
\* Vertex.outdegree is a method, and Python 3 refuses to order a method and
\* an int (TypeError); read as an attribute it is the vertex's out-degree.
Readings == {"method", "degree"}

\* The while loop of one vertex.  The list `edges` (handles) is built once,
\* before the loop, and is read again on every iteration: a handle past the
\* end of the edge sequence raises, one inside it reads whatever edge is at
\* that position now.
RECURSIVE prune(_, _, _, _, _)
prune(E, v, handles, out_degree, reading) ==
    IF reading = "method" THEN [status |-> "TypeError", es |-> E]
    ELSE IF ~(outdegree(E, v) > out_degree) THEN [status |-> "ok", es |-> E]
    ELSE IF handles = <<>> \/ \E p \in 1..Len(handles) : handles[p] > Len(E)
         THEN [status |-> "ValueError", es |-> E]
         ELSE prune(delete(E, min_edge(E, handles)), v, handles, out_degree, reading)

\* for vertex in subgraph.vs, from position v on.
RECURSIVE prune_from(_, _, _, _, _)
prune_from(V, E, v, out_degree, reading) ==
    IF v > Len(V) THEN [status |-> "ok", es |-> E]
    ELSE LET r == prune(E, v, incident(E, v), out_degree, reading)
         IN  IF r.status # "ok" THEN r
             ELSE prune_from(V, r.es, v + 1, out_degree, reading)

\* subgraph = self.__graph__.copy(); ...; return subgraph
subgraph_of(V, E, out_degree, reading) ==
    LET r == prune_from(V, E, 1, out_degree, reading)
    IN  IF r.status = "ok" THEN Ok([vs |-> V, es |-> r.es]) ELSE Raise(r.status)

subgraph(out_degree) ==
    \E reading \in Readings :
        /\ call' = [op |-> "subgraph", arg |-> out_degree]
        /\ ret' = subgraph_of(vs, es, out_degree, reading)
        /\ UNCHANGED <<vs, es, clusters, files, edge_dict, graphs>>

----------------------------------------------------------------------------
\* Graph.edge

NoEdge == 0

\* graph.es.find(_source=start, _target=end): the first edge from start to
\* end.  igraph's find raises ValueError ("no such edge") when nothing
\* matches (NoEdge); it never returns an empty or a false value.
find(E, start, end) ==
    LET matching == {i \in 1..Len(E) : E[i].source = start /\ E[i].target = end}
    IN  IF matching = {} THEN NoEdge
        ELSE CHOOSE i \in matching : \A j \in matching : i <= j

__find_edge__(V, E, start_node, end_node) ==
    LET start == __get_node_by_name__(V, start_node)
        end == __get_node_by_name__(V, end_node)
    IN  IF start = NoNode \/ end = NoNode THEN Raise("ValueError")
        ELSE IF find(E, start, end) = NoEdge THEN Raise("ValueError")
        ELSE Ok(find(E, start, end))

\* e = self.__find_edge__(src, end); if e: return Edge(src, end, e['weight']).
\* An igraph Edge is true when it has an attribute, and every edge of the
\* graph has a weight; `return None` is reached by no call, since
\* __find_edge__ returns an edge or raises.
edge_of(V, E, src, end) ==
    LET e == __find_edge__(V, E, src, end)
    IN  IF e.status # "ok" THEN e
        ELSE Ok([start |-> src, end |-> end, weight |-> E[e.value].weight])

edge(src, end) ==
    /\ call' = [op |-> "edge", arg |-> [src |-> src, end |-> end]]
    /\ ret' = edge_of(vs, es, src, end)
    /\ UNCHANGED <<vs, es, clusters, files, edge_dict, graphs>>

----------------------------------------------------------------------------
\* Cluster labels: Graph.clusters and the vertex attribute `cluster`.

Labels == {"C1", "C2"}

\* cluster in self.clusters
has_cluster(C, cluster) == \E i \in 1..Len(C) : C[i].label = cluster

position(C, cluster) == CHOOSE i \in 1..Len(C) : C[i].label = cluster

\* node in l
contains(l, node) == \E i \in 1..Len(l) : l[i] = node

\* list.remove(node): the first occurrence goes.
remove(l, node) ==
    LET first == CHOOSE i \in 1..Len(l) :
                     l[i] = node /\ \A j \in 1..(i - 1) : l[j] # node
    IN  [j \in 1..(Len(l) - 1) |-> IF j < first THEN l[j] ELSE l[j + 1]]

\* n = self.__get_node_by_name__(node); n[label] = value
__add_label__(V, node, value) ==
    LET n == __get_node_by_name__(V, node)
    IN  IF n = NoNode THEN [status |-> "ValueError", vs |-> V]
        ELSE [status |-> "ok", vs |-> [V EXCEPT ![n].cluster = value]]

\* add_to_cluster for one node: the cluster index is written first, then
\* the label of the vertex (which raises when the node is no single vertex).
add_to_cluster_node(V, C, node, cluster) ==
    LET created == IF ~has_cluster(C, cluster)
                   THEN Append(C, [label |-> cluster, members |-> <<>>])
                   ELSE C
        appended == [created EXCEPT ![position(created, cluster)].members = Append(@, node)]
        labelled == __add_label__(V, node, cluster)
    IN  [status |-> labelled.status, vs |-> labelled.vs, clusters |-> appended]

\* for n in node: self.add_to_cluster(n, cluster)
RECURSIVE add_to_cluster_list(_, _, _, _)
add_to_cluster_list(V, C, nodes, cluster) ==
    IF nodes = <<>> THEN [status |-> "ok", vs |-> V, clusters |-> C]
    ELSE LET r == add_to_cluster_node(V, C, Head(nodes), cluster)
         IN  IF r.status # "ok" THEN r
             ELSE add_to_cluster_list(r.vs, r.clusters, Tail(nodes), cluster)

\* remove_from_cluster for one node of an existing cluster: list.remove
\* raises when the node is not listed; the label becomes the first cluster,
\* in the order of the dict, that still lists the node, or None.
remove_from_cluster_node(V, C, node, cluster) ==
    IF ~contains(C[position(C, cluster)].members, node)
    THEN [status |-> "ValueError", vs |-> V, clusters |-> C]
    ELSE LET removed == [C EXCEPT ![position(C, cluster)].members = remove(@, node)]
             listing == {i \in 1..Len(removed) : contains(removed[i].members, node)}
             c == IF listing = {} THEN None
                  ELSE removed[CHOOSE i \in listing : \A j \in listing : i <= j].label
             labelled == __add_label__(V, node, c)
         IN  [status |-> labelled.status, vs |-> labelled.vs, clusters |-> removed]

\* for n in node: self.remove_from_cluster(n, cluster)
RECURSIVE remove_from_cluster_list(_, _, _, _)
remove_from_cluster_list(V, C, nodes, cluster) ==
    IF nodes = <<>> THEN [status |-> "ok", vs |-> V, clusters |-> C]
    ELSE LET r == remove_from_cluster_node(V, C, Head(nodes), cluster)
         IN  IF r.status # "ok" THEN r
             ELSE remove_from_cluster_list(r.vs, r.clusters, Tail(nodes), cluster)

\* The node argument: one identifier, or a list of them (isinstance(node, list)).
NodeArgs == [list : {FALSE}, node : Names] \cup [list : {TRUE}, node : SeqsOf(Names, 0, MaxBatch)]

Mentions(a) == IF a.list THEN Len(a.node) ELSE 1

add_to_cluster(a, cluster) ==
    LET r == IF a.list THEN add_to_cluster_list(vs, clusters, a.node, cluster)
             ELSE add_to_cluster_node(vs, clusters, a.node, cluster)
    IN  /\ vs' = r.vs
        /\ clusters' = r.clusters
        /\ call' = [op |-> "add_to_cluster", arg |-> [node |-> a, cluster |-> cluster]]
        /\ ret' = IF r.status = "ok" THEN Ok(<<>>) ELSE Raise(r.status)
        /\ UNCHANGED <<es, files, edge_dict, graphs>>

remove_from_cluster(a, cluster) ==
    LET r == IF ~has_cluster(clusters, cluster)
             THEN [status |-> "ValueError", vs |-> vs, clusters |-> clusters]
             ELSE IF a.list THEN remove_from_cluster_list(vs, clusters, a.node, cluster)
             ELSE remove_from_cluster_node(vs, clusters, a.node, cluster)
    IN  /\ vs' = r.vs
        /\ clusters' = r.clusters
        /\ call' = [op |-> "remove_from_cluster", arg |-> [node |-> a, cluster |-> cluster]]
        /\ ret' = IF r.status = "ok" THEN Ok(<<>>) ELSE Raise(r.status)
        /\ UNCHANGED <<es, files, edge_dict, graphs>>

----------------------------------------------------------------------------
\* Graph.neighbors

\* n.neighbors(mode='OUT'): the target vertex of each edge leaving v, one
\* entry per edge, in the order of igraph's out-index.
out_neighbors(E, v) == [p \in 1..Len(incident(E, v)) |-> E[incident(E, v)[p]].target]

\* The two readings of `i in vertices`, where i is an igraph Vertex and
\* vertices holds the identifiers given to add_to_cluster.  A Vertex
\* compares equal to Vertex objects only, so it is in no list of
\* identifiers ("vertex"); read by the vertex's name it is in the list when
\* the list holds its name ("name").
Memberships == {"vertex", "name"}

\* for cluster in clusters: the neighbours listed under the cluster go to
\* temp and leave the list of neighbours; a label that is no key of
\* self.clusters raises KeyError.
RECURSIVE in_clusters(_, _, _, _, _)
in_clusters(V, C, adjacent, listed, reading) ==
    IF listed = <<>> THEN [status |-> "ok", temp |-> <<>>]
    ELSE IF ~has_cluster(C, Head(listed)) THEN [status |-> "KeyError", temp |-> <<>>]
    ELSE LET vertices == C[position(C, Head(listed))].members
             in_vertices(i) == reading = "name" /\ contains(vertices, V[i].name)
             not_in_vertices(i) == ~in_vertices(i)
             intersection == SelectSeq(adjacent, in_vertices)
             rest == in_clusters(V, C, SelectSeq(adjacent, not_in_vertices),
                                 Tail(listed), reading)
         IN  IF rest.status # "ok" THEN rest
             ELSE [status |-> "ok", temp |-> intersection \o rest.temp]

\* The list of Edge objects returned: self.edge(node, neighbor['name']) for
\* each neighbour kept.
neighbors_of(V, E, C, node, listed, reading) ==
    LET n == __get_node_by_name__(V, node)
    IN  IF n = NoNode THEN Raise("ValueError")
        ELSE LET kept == IF listed # <<>>
                         THEN in_clusters(V, C, out_neighbors(E, n), listed, reading)
                         ELSE [status |-> "ok", temp |-> out_neighbors(E, n)]
                 return_val == [p \in 1..Len(kept.temp) |->
                                   edge_of(V, E, node, V[kept.temp[p]].name)]
             IN  IF kept.status # "ok" THEN Raise(kept.status)
                 ELSE IF \E p \in 1..Len(return_val) : return_val[p].status # "ok"
                 THEN Raise("ValueError")
                 ELSE Ok([p \in 1..Len(return_val) |-> return_val[p].value])

neighbors(node, listed) ==
    \E reading \in Memberships :
        /\ call' = [op |-> "neighbors", arg |-> [node |-> node, clusters |-> listed]]
        /\ ret' = neighbors_of(vs, es, clusters, node, listed, reading)
        /\ UNCHANGED <<vs, es, clusters, files, edge_dict, graphs>>

----------------------------------------------------------------------------
\* Graph.save and Graph.load

Locations == {"foo"}

\* A faulty variant of write_pickle: the edge list is written without the weights.
write_pickle_without_weights(V, E) ==
    [vcount |-> Len(V),
     edgelist |-> [i \in 1..Len(E) |-> <<E[i].source - 1, E[i].target - 1>>],
     directed |-> TRUE,
     vattrs |-> [name |-> [i \in 1..Len(V) |-> V[i].name],
                 cluster |-> [i \in 1..Len(V) |-> V[i].cluster]],
     eattrs |-> [weight |-> [i \in 1..Len(E) |-> 0]]]

\* igraph's write_pickle: the graph reduced to the arguments of its
\* constructor (vertex count, 0-based edge list, directedness, one list per
\* vertex attribute and per edge attribute).
write_pickle(V, E) ==
    [vcount |-> Len(V),
     edgelist |-> [i \in 1..Len(E) |-> <<E[i].source - 1, E[i].target - 1>>],
     directed |-> TRUE,
     vattrs |-> [name |-> [i \in 1..Len(V) |-> V[i].name],
                 cluster |-> [i \in 1..Len(V) |-> V[i].cluster]],
     eattrs |-> [weight |-> [i \in 1..Len(E) |-> E[i].weight]]]

\* igraph's Read_Pickle: the constructor applied to the pickled arguments.
Read_Pickle(p) ==
    [vs |-> [i \in 1..p.vcount |->
                [name |-> p.vattrs.name[i], cluster |-> p.vattrs.cluster[i]]],
     es |-> [i \in 1..Len(p.edgelist) |->
                [source |-> p.edgelist[i][1] + 1, target |-> p.edgelist[i][2] + 1,
                 weight |-> p.eattrs.weight[i]]]]

\* pickle.dump(self.clusters): the dict as its (key, value) items, in order.
pickle_dump(C) == [i \in 1..Len(C) |-> <<C[i].label, C[i].members>>]

\* pickle.load: the dict built again from its items.
pickle_load(p) == [i \in 1..Len(p) |-> [label |-> p[i][1], members |-> p[i][2]]]

\* Graph(graph=g): `if graph` keeps g, or starts from an empty directed graph.
Graph(g) == IF Len(g.vs) # 0 THEN g ELSE [vs |-> <<>>, es |-> <<>>]

save(location) ==
    /\ files' = (location :> write_pickle(vs, es))
                    @@ ((location \o "_dict") :> pickle_dump(clusters)) @@ files
    /\ call' = [op |-> "save", arg |-> location]
    /\ ret' = Ok(<<>>)
    /\ UNCHANGED <<vs, es, clusters, edge_dict, graphs>>

\* A faulty variant of load: a missing cluster index is read as an empty one.
load_without_dict(F, location) ==
    IF location \notin DOMAIN F THEN Raise("FileNotFoundError")
    ELSE LET graph == Graph(Read_Pickle(F[location]))
         IN  Ok([vs |-> graph.vs, es |-> graph.es,
                 clusters |-> IF (location \o "_dict") \notin DOMAIN F THEN <<>>
                              ELSE pickle_load(F[location \o "_dict"])])

load_from(F, location) ==
    IF location \notin DOMAIN F THEN Raise("FileNotFoundError")
    ELSE LET graph == Graph(Read_Pickle(F[location]))
         IN  IF (location \o "_dict") \notin DOMAIN F THEN Raise("FileNotFoundError")
             ELSE Ok([vs |-> graph.vs, es |-> graph.es,
                      clusters |-> pickle_load(F[location \o "_dict"])])

load(location) ==
    /\ call' = [op |-> "load", arg |-> location]
    /\ ret' = load_from(files, location)
    /\ UNCHANGED <<vs, es, clusters, files, edge_dict, graphs>>

\* The file system between a save and a load: a file is removed, the graph
\* artifact or its cluster index, which isfile(location) and open(location
\* + '_dict') then do not find.
unlink(file) ==
    /\ file \in DOMAIN files
    /\ files' = IF DOMAIN files = {file} THEN <<>>
                ELSE [f \in DOMAIN files \ {file} |-> files[f]]
    /\ call' = [op |-> "unlink", arg |-> file]
    /\ ret' = Ok(<<>>)
    /\ UNCHANGED <<vs, es, clusters, edge_dict, graphs>>

----------------------------------------------------------------------------
\* The graph store: Graph() and the calls made on it.

Init ==
    /\ vs = <<>>
    /\ es = <<>>
    /\ clusters = <<>>
    /\ files = <<>>
    /\ call = [op |-> "Graph", arg |-> <<>>]
    /\ ret = Ok(<<>>)
    /\ edge_dict = <<>>
    /\ graphs = <<>>

AddVertices ==
    \E vertices \in SeqsOf(Names, 1, MaxBatch) :
        /\ Len(vs) + Len(vertices) <= MaxVertices
        /\ add_vertices(vertices)

AddEdges ==
    \E edges \in SeqsOf(Edge, 1, MaxBatch) :
        /\ Len(es) + Len(edges) <= MaxEdges
        /\ add_edges(edges)

Subgraph ==
    \E out_degree \in 0..MaxK : subgraph(out_degree)

Next ==
    \/ AddVertices
    \/ AddEdges
    \/ Subgraph

Spec == Init /\ [][Next]_vars

----------------------------------------------------------------------------
\* The graph store and its cluster labels.

MaxMembers == 3

TotalMembers(C) ==
    LET RECURSIVE sum(_)
        sum(i) == IF i = 0 THEN 0 ELSE Len(C[i].members) + sum(i - 1)
    IN  sum(Len(C))

AddToCluster ==
    \E a \in NodeArgs, cluster \in Labels :
        /\ TotalMembers(clusters) + Mentions(a) <= MaxMembers
        /\ add_to_cluster(a, cluster)

RemoveFromCluster ==
    \E a \in NodeArgs, cluster \in Labels : remove_from_cluster(a, cluster)

NextCluster ==
    \/ AddVertices
    \/ AddToCluster
    \/ RemoveFromCluster

SpecCluster == Init /\ [][NextCluster]_vars

----------------------------------------------------------------------------
\* A graph is built, saved and loaded again, as GraphDriver.test and
\* Loader.make_graphs do: save is the last call made on a graph.

MaxSavedEdges == 1
MaxSavedMembers == 1

Built == files = <<>>

BuildVertex ==
    \E vertex \in Names :
        /\ Built
        /\ Len(vs) + 1 <= MaxVertices
        /\ add_vertices(<<vertex>>)

BuildEdge ==
    \E e \in Edge :
        /\ Built
        /\ Len(es) + 1 <= MaxSavedEdges
        /\ add_edges(<<e>>)

BuildCluster ==
    \E node \in Names, cluster \in Labels :
        /\ Built
        /\ TotalMembers(clusters) + 1 <= MaxSavedMembers
        /\ add_to_cluster([list |-> FALSE, node |-> node], cluster)

BuildWithout ==
    \E node \in Names, cluster \in Labels :
        /\ Built
        /\ remove_from_cluster([list |-> FALSE, node |-> node], cluster)

Save == \E location \in Locations : save(location)

Load == \E location \in Locations : load(location)

NextPersist ==
    \/ BuildVertex
    \/ BuildEdge
    \/ BuildCluster
    \/ BuildWithout
    \/ Save
    \/ Load

SpecPersist == Init /\ [][NextPersist]_vars

----------------------------------------------------------------------------
\* Saved graphs whose files come and go before they are loaded.

Unlink ==
    \E location \in Locations :
        \E file \in {location, location \o "_dict"} : unlink(file)

NextFiles ==
    \/ BuildVertex
    \/ BuildCluster
    \/ Save
    \/ Unlink
    \/ Load

SpecFiles == Init /\ [][NextFiles]_vars

----------------------------------------------------------------------------
\* A graph with edges and cluster labels, and the queries made on it.

MaxQueryEdges == 2
MaxQueryMembers == 2

LinkEdge ==
    \E e \in Edge :
        /\ Len(es) + 1 <= MaxQueryEdges
        /\ add_edges(<<e>>)

JoinCluster ==
    \E node \in Names, cluster \in Labels :
        /\ TotalMembers(clusters) + 1 <= MaxQueryMembers
        /\ add_to_cluster([list |-> FALSE, node |-> node], cluster)

EdgeQuery == \E src \in Names, end \in Names : edge(src, end)

Neighbors ==
    \E node \in Names, listed \in SeqsOf(Labels, 0, MaxBatch) : neighbors(node, listed)

NextQuery ==
    \/ BuildVertex
    \/ LinkEdge
    \/ JoinCluster
    \/ EdgeQuery
    \/ Neighbors

SpecQuery == Init /\ [][NextQuery]_vars

----------------------------------------------------------------------------
\* Similarity tables: Graph.add_similarity and Loader.make_graphs.

MaxNearest == 3

\* The photo identifiers, which index the rows and the columns of a table.
Photos == 1..3
Sims == {0, 1, 2}

\* Similarity.cosine_similarity(all_photos, all_photos): a symmetric table;
\* a photo is as similar to itself as can be.
SimilarityTables ==
    LET pairs == {p \in Photos \X Photos : p[1] < p[2]}
        top == CHOOSE s \in Sims : \A t \in Sims : t <= s
    IN  {[p \in Photos \X Photos |->
             IF p[1] = p[2] THEN top
             ELSE IF p[1] < p[2] THEN half[p] ELSE half[<<p[2], p[1]>>]] :
         half \in [pairs -> Sims]}

\* similarity.values[[np.arange(length)]*2] = 0
zero_diagonal(similarity) ==
    [p \in Photos \X Photos |-> IF p[1] = p[2] THEN 0 ELSE similarity[p]]

\* row.sort_values(ascending=False): the columns by descending value.  The
\* sort is pandas' default quicksort, which is not stable: columns of equal
\* value come in any order.
sort_values(similarity, photo) ==
    {order \in [1..Cardinality(Photos) -> Photos] :
        /\ \A i, j \in DOMAIN order : i # j => order[i] # order[j]
        /\ \A i, j \in DOMAIN order :
              i < j => similarity[<<photo, order[i]>>] >= similarity[<<photo, order[j]>>]}

\* One sorted row for each of the photos 1..n, in every way the sorts can end.
RECURSIVE sorted_rows(_, _)
sorted_rows(similarity, n) ==
    IF n = 0 THEN {<<>>}
    ELSE {Append(rows, row) : rows \in sorted_rows(similarity, n - 1),
                              row \in sort_values(similarity, n)}

\* A faulty variant of top_k: the slice stops one column early.
top_k_short(similarity, photo, sorted_row, k) ==
    [i \in 1..(IF k < Len(sorted_row) THEN (IF k > 0 THEN k - 1 ELSE 0) ELSE Len(sorted_row)) |->
        [key |-> sorted_row[i], weight |-> similarity[<<photo, sorted_row[i]>>]]]

\* keys = sorted_row.iloc[:k].index; edge_dict[row.name][key] = sorted_row[key]
\* (a dict, as the sequence of its items in insertion order).
top_k(similarity, photo, sorted_row, k) ==
    [i \in 1..(IF k < Len(sorted_row) THEN k ELSE Len(sorted_row)) |->
        [key |-> sorted_row[i], weight |-> similarity[<<photo, sorted_row[i]>>]]]

\* min(d, key=d.get) and d.pop(min_key): the first item of least weight goes.
pop_min(d) ==
    LET p == CHOOSE p \in 1..Len(d) :
                 /\ \A q \in 1..Len(d) : d[p].weight <= d[q].weight
                 /\ \A q \in 1..(p - 1) : d[q].weight > d[p].weight
    IN  [j \in 1..(Len(d) - 1) |-> IF j < p THEN d[j] ELSE d[j + 1]]

\* while len(working[key]) > k: pop the smallest item.
RECURSIVE shrink(_, _)
shrink(d, k) == IF ~(Len(d) > k) THEN d ELSE shrink(pop_min(d), k)

\* all_ks.sort(reverse=True)
RECURSIVE sort_reverse(_)
sort_reverse(ks) ==
    IF ks = <<>> THEN <<>>
    ELSE LET p == CHOOSE p \in 1..Len(ks) :
                      /\ \A q \in 1..Len(ks) : ks[p] >= ks[q]
                      /\ \A q \in 1..(p - 1) : ks[q] < ks[p]
         IN  <<ks[p]>> \o sort_reverse([j \in 1..(Len(ks) - 1) |->
                                           IF j < p THEN ks[j] ELSE ks[j + 1]])

\* for nearest in all_ks: working = edge_dict.copy() is a shallow copy, so
\* the rows of working are the rows of edge_dict; each row is shrunk while
\* it is longer than k (k, not nearest), and the mapping is handed to the
\* Graph built for nearest.
RECURSIVE graphs_for(_, _, _)
graphs_for(d, ks, k) ==
    IF ks = <<>> THEN [edge_dict |-> d, graphs |-> <<>>]
    ELSE LET working == [key \in DOMAIN d |-> shrink(d[key], k)]
             rest == graphs_for(working, Tail(ks), k)
         IN  [edge_dict |-> rest.edge_dict,
              graphs |-> <<[nearest |-> Head(ks), working |-> working]>> \o rest.graphs]

max(ks) == CHOOSE m \in {ks[i] : i \in DOMAIN ks} : \A i \in DOMAIN ks : ks[i] <= m

\* make_graphs(db, k, all_ks): given says whether k was passed (k is None
\* otherwise).  Graph.add_edge_dict, display and save are not modelled: the
\* mapping each Graph is built from is what `graphs` records.
make_graphs(table, given, k_arg, ks_arg) ==
    LET k == IF given THEN k_arg ELSE max(ks_arg)
        all_ks == IF given THEN <<k_arg>> ELSE ks_arg
        similarity == zero_diagonal(table)
    IN  \E rows \in sorted_rows(similarity, Cardinality(Photos)) :
            LET top == [photo \in 1..Len(rows) |-> top_k(similarity, photo, rows[photo], k)]
                built == graphs_for(top, sort_reverse(all_ks), k)
            IN  /\ edge_dict' = built.edge_dict
                /\ graphs' = built.graphs
                /\ call' = [op |-> "make_graphs",
                            arg |-> [k |-> k, similarity |-> similarity]]
                /\ ret' = Ok(<<>>)
                /\ UNCHANGED <<vs, es, clusters, files>>

\* for photo in photos: every column of the sorted row becomes an edge.
RECURSIVE add_rows(_, _, _, _)
add_rows(V, E, similarity, rows) ==
    IF rows = <<>> THEN [status |-> "ok", es |-> E]
    ELSE LET photo == Cardinality(Photos) - Len(rows) + 1
             row == Head(rows)
             edges == [i \in 1..Len(row) |-> <<photo, row[i]>>]
             weights == [i \in 1..Len(row) |-> similarity[<<photo, row[i]>>]]
             r == __add_edges__(V, E, edges, weights)
         IN  IF r.status # "ok" THEN r
             ELSE add_rows(V, r.es, similarity, Tail(rows))

\* Graph(similarity=similarity): add_similarity on the new, empty graph.
add_similarity(similarity) ==
    \E rows \in sorted_rows(similarity, Cardinality(Photos)) :
        LET photos == [i \in 1..Cardinality(Photos) |-> i]
            V == add_vertices_to(vs, photos)
            r == add_rows(V, es, similarity, rows)
        IN  /\ vs' = V
            /\ es' = r.es
            /\ call' = [op |-> "add_similarity", arg |-> [k |-> 0, similarity |-> similarity]]
            /\ ret' = IF r.status = "ok" THEN Ok(<<>>) ELSE Raise(r.status)
            /\ UNCHANGED <<clusters, files, edge_dict, graphs>>

MakeGraphs ==
    \E table \in SimilarityTables, all_ks \in SeqsOf(0..MaxNearest, 1, MaxBatch) :
        /\ call.op = "Graph"
        /\ make_graphs(table, FALSE, 0, all_ks)

MakeGraph ==
    \E table \in SimilarityTables, k \in 1..MaxNearest :
        /\ call.op = "Graph"
        /\ make_graphs(table, TRUE, k, <<>>)

AddSimilarity ==
    \E table \in SimilarityTables :
        /\ call.op = "Graph"
        /\ add_similarity(table)

NextLoader ==
    \/ MakeGraphs
    \/ MakeGraph
    \/ AddSimilarity

SpecLoader == Init /\ [][NextLoader]_vars

----------------------------------------------------------------------------
\* Properties of the graph store.

Min(a, b) == IF a < b THEN a ELSE b

OutEdges(E, v) == {i \in 1..Len(E) : E[i].source = v}

\* For vertex v, R holds exactly min(k, out-degree) of v's edges in E, and
\* none of the edges left out is heavier than one kept.
KeepsTopK(E, R, v, k) ==
    \E S \in SUBSET OutEdges(E, v) :
        /\ Cardinality(S) = Min(k, Cardinality(OutEdges(E, v)))
        /\ \A i \in S, j \in OutEdges(E, v) \ S : E[j].weight <= E[i].weight
        /\ \A e \in {E[i] : i \in OutEdges(E, v)} \cup {R[i] : i \in OutEdges(R, v)} :
              Cardinality({i \in S : E[i] = e})
                  = Cardinality({i \in OutEdges(R, v) : R[i] = e})

\* C1: subgraph(k) with k >= 1 returns a graph in which every vertex has
\* out-degree <= k and keeps exactly its k heaviest outgoing edges of the
\* original graph (all of them when it had at most k).
C1_SubgraphKeepsTopK ==
    (call.op = "subgraph" /\ call.arg >= 1) =>
        /\ ret.status = "ok"
        /\ ret.value.vs = vs
        /\ \A v \in 1..Len(vs) :
              /\ outdegree(ret.value.es, v) <= call.arg
              /\ KeepsTopK(es, ret.value.es, v, call.arg)

\* C8: the graph never holds two edges with the same ordered (source,
\* target) pair, and an add_edges call whose batch repeats a pair, or names
\* a pair already in the graph, fails.
C8_DuplicateEdgeRejected ==
    /\ \A i, j \in 1..Len(es) :
          (es[i].source = es[j].source /\ es[i].target = es[j].target) => i = j
    /\ (call.op = "add_edges" /\ call.arg.duplicate) => ret.status # "ok"

\* C9: no two vertices share an identifier, every vertex is found again by
\* its identifier, and an add_vertices call that repeats an identifier, or
\* names an existing vertex, fails.
C9_DuplicateVertexRejected ==
    /\ \A i, j \in 1..Len(vs) : vs[i].name = vs[j].name => i = j
    /\ \A i \in 1..Len(vs) : __get_node_by_name__(vs, vs[i].name) = i
    /\ (call.op = "add_vertices"
          /\ \E i \in 1..Len(call.arg) :
                Cardinality(select(vs, call.arg[i])) > 1) => ret.status # "ok"

\* C10: an add_edges batch with an endpoint that is no vertex fails and
\* leaves the vertices, the edges and their weights as they were; and every
\* edge of the graph always has both endpoints among the vertices.
C10_UnknownVertexRejected ==
    /\ [][(call'.op = "add_edges" /\ call'.arg.unknown) =>
              (ret'.status = "ValueError" /\ vs' = vs /\ es' = es)]_vars
    /\ [](\A i \in 1..Len(es) :
              es[i].source \in 1..Len(vs) /\ es[i].target \in 1..Len(vs))

\* C10 witness: a batch of two edges was rejected for an unknown endpoint
\* by a graph that already holds edges.
C10_Witness ==
    /\ call.op = "add_edges" /\ call.arg.unknown /\ call.arg.n = 2
    /\ ret.status = "ValueError"
    /\ Len(es) >= 1

\* C17: a successful add_edges appends its edges after those of the graph,
\* each with the weight it was given, and leaves every earlier edge with
\* the weight it had; every edge of the graph has a weight.
C17_WeightsPreserved ==
    /\ [][(call'.op = "add_edges" /\ ret'.status = "ok") =>
              /\ Len(es') = Len(es) + call'.arg.n
              /\ Len(call'.arg.weights) = call'.arg.n
              /\ \A i \in 1..Len(es) : es'[i] = es[i]
              /\ \A i \in 1..call'.arg.n :
                    es'[Len(es) + i].weight = call'.arg.weights[i]]_vars
    /\ [](\A i \in 1..Len(es) : es[i].weight \in Weights)

\* C17 witness: a batch has been added to a graph that held an edge of
\* another weight than the batch's first.
C17_Witness ==
    /\ call.op = "add_edges" /\ ret.status = "ok"
    /\ Len(es) > call.arg.n
    /\ \E i \in 1..(Len(es) - call.arg.n) : es[i].weight # call.arg.weights[1]

\* C15: subgraph(k) with k <= 0 is rejected: no graph is returned.
C15_NonPositiveBoundRejected ==
    (call.op = "subgraph" /\ call.arg <= 0) => ret.status # "ok"

\* C16: subgraph(k) with k >= 1 leaves the graph as it was and ends with
\* a copy from which every vertex has lost exactly max(0, out-degree - k)
\* of its outgoing edges, and no other edge is gone.
C16_PruneTerminates ==
    /\ [][call'.op = "subgraph" => (vs' = vs /\ es' = es)]_vars
    /\ []((call.op = "subgraph" /\ call.arg >= 1) =>
              /\ ret.status = "ok"
              /\ \A v \in 1..Len(vs) :
                    outdegree(ret.value.es, v) = Min(outdegree(es, v), call.arg))

----------------------------------------------------------------------------
\* Properties of the saved graph and of the cluster labels.

\* C5: once a graph has been saved to a location, load of that location
\* returns a graph with the same vertices and labels, the same edges with
\* the same weights, and the same cluster index.
C5_LoadReturnsSavedGraph ==
    (call.op = "load" /\ call.arg \in DOMAIN files) =>
        ret = Ok([vs |-> vs, es |-> es, clusters |-> clusters])

\* C5 witness: a graph of two vertices, an edge between them and a labelled
\* vertex listed in the cluster index was saved and loaded.
C5_Witness ==
    /\ call.op = "load" /\ ret.status = "ok"
    /\ \E i \in 1..Len(ret.value.es) : ret.value.es[i].source # ret.value.es[i].target
    /\ \E i \in 1..Len(ret.value.vs) : ret.value.vs[i].cluster # None
    /\ TotalMembers(ret.value.clusters) >= 1

Label(V, node) == V[__get_node_by_name__(V, node)].cluster

Members(C, cluster) ==
    IF has_cluster(C, cluster) THEN C[position(C, cluster)].members ELSE <<>>

\* C6: when a vertex listed in no other cluster is added to a cluster and
\* then removed from it, its label is null and the cluster no longer lists
\* it, whether or not the cluster listed it before.
C6_AddThenRemove ==
    [][(/\ call.op = "add_to_cluster" /\ ret.status = "ok" /\ ~call.arg.node.list
        /\ call'.op = "remove_from_cluster" /\ ~call'.arg.node.list
        /\ call'.arg.node.node = call.arg.node.node
        /\ call'.arg.cluster = call.arg.cluster
        /\ __get_node_by_name__(vs, call.arg.node.node) # NoNode
        /\ \A c \in Labels \ {call.arg.cluster} :
              ~contains(Members(clusters, c), call.arg.node.node))
       => (/\ Label(vs', call.arg.node.node) = None
           /\ ~contains(Members(clusters', call.arg.cluster), call.arg.node.node))]_vars

\* C7: every identifier in the cluster index names a vertex; a vertex has a
\* null label exactly when no cluster lists it; a non-null label names a
\* cluster that lists the vertex.
C7_IndexAgreesWithLabels ==
    /\ \A i \in 1..Len(clusters) : \A m \in 1..Len(clusters[i].members) :
          select(vs, clusters[i].members[m]) # {}
    /\ \A v \in 1..Len(vs) :
          /\ vs[v].cluster = None <=>
                 \A i \in 1..Len(clusters) : ~contains(clusters[i].members, vs[v].name)
          /\ vs[v].cluster # None =>
                 contains(Members(clusters, vs[v].cluster), vs[v].name)

\* C11: an add_to_cluster or remove_from_cluster call that fails, for one
\* identifier or for an element of a list, leaves the cluster index and
\* every vertex label as they were before the call.
C11_RejectedMutationLeavesStore ==
    [][(call'.op \in {"add_to_cluster", "remove_from_cluster"} /\ ret'.status # "ok")
          => (vs' = vs /\ clusters' = clusters)]_vars

----------------------------------------------------------------------------
\* Properties of the queries.

\* Exactly one vertex has the name.
Unique(V, name) == Cardinality(select(V, name)) = 1

\* The Edge object of the edge at position i of E.
EdgeObject(V, E, i) ==
    [start |-> V[E[i].source].name, end |-> V[E[i].target].name, weight |-> E[i].weight]

\* C12: for two existing vertices, edge(source, target) returns the edge
\* with its weight when the graph holds one from source to target, and
\* returns None, raising nothing, when it holds none.
C12_EdgeOrNone ==
    (call.op = "edge" /\ Unique(vs, call.arg.src) /\ Unique(vs, call.arg.end)) =>
        LET held == {i \in 1..Len(es) :
                        /\ es[i].source = __get_node_by_name__(vs, call.arg.src)
                        /\ es[i].target = __get_node_by_name__(vs, call.arg.end)}
        IN  /\ ret.status = "ok"
            /\ IF held = {} THEN ret.value = None
               ELSE \E i \in held : ret.value = EdgeObject(vs, es, i)

\* C13: neighbors(id, clusters) returns, each once, the edges leaving id
\* whose target is a member of one of the listed clusters, and every edge
\* leaving id when no cluster is listed.
C13_NeighborsInClusters ==
    (/\ call.op = "neighbors" /\ Unique(vs, call.arg.node)
     /\ \A p \in 1..Len(call.arg.clusters) : has_cluster(clusters, call.arg.clusters[p])) =>
        LET n == __get_node_by_name__(vs, call.arg.node)
            wanted == {i \in OutEdges(es, n) :
                          \/ call.arg.clusters = <<>>
                          \/ \E p \in 1..Len(call.arg.clusters) :
                                contains(Members(clusters, call.arg.clusters[p]),
                                         vs[es[i].target].name)}
        IN  /\ ret.status = "ok"
            /\ Len(ret.value) = Cardinality(wanted)
            /\ \A i \in wanted :
                  Cardinality({p \in 1..Len(ret.value) : ret.value[p] = EdgeObject(vs, es, i)})
                      = Cardinality({j \in wanted : EdgeObject(vs, es, j) = EdgeObject(vs, es, i)})

----------------------------------------------------------------------------
\* Properties of load.

\* C14: load fails and returns no graph when the location does not exist,
\* and when the location exists but location + '_dict' does not; the
\* cluster index of a loaded graph is the one read from location + '_dict'.
C14_LoadFailsWithoutArtifacts ==
    call.op = "load" =>
        /\ (call.arg \notin DOMAIN files \/ (call.arg \o "_dict") \notin DOMAIN files)
               => (ret.status = "FileNotFoundError" /\ ret.value = <<>>)
        /\ ret.status = "ok" =>
               ret.value.clusters = pickle_load(files[call.arg \o "_dict"])

\* C14 witness: the pickled graph of a labelled vertex is at the location,
\* its cluster index is gone, and load has failed.
C14_Witness ==
    /\ call.op = "load" /\ ret.status = "FileNotFoundError"
    /\ call.arg \in DOMAIN files /\ (call.arg \o "_dict") \notin DOMAIN files
    /\ files[call.arg].vcount >= 1
    /\ \E i \in 1..files[call.arg].vcount : files[call.arg].vattrs.cluster[i] # None

----------------------------------------------------------------------------
\* Properties of the top-k selection.

Keys(d) == {d[i].key : i \in 1..Len(d)}

\* d is a selection of the n heaviest columns of the photo's row: n of its
\* columns (all of them when the row has fewer), each with its weight, and
\* no column left out is heavier than one kept.
IsTopOfRow(similarity, photo, d, n) ==
    /\ Len(d) = Min(n, Cardinality(Photos))
    /\ Cardinality(Keys(d)) = Len(d)
    /\ \A i \in 1..Len(d) :
          d[i].key \in Photos /\ d[i].weight = similarity[<<photo, d[i].key>>]
    /\ \A c \in Photos \ Keys(d) : \A i \in 1..Len(d) :
          similarity[<<photo, c>>] <= d[i].weight

\* C2: for every neighbour count of all_ks, the mapping the graph is built
\* from holds, for every photo, a top selection of that many columns of the
\* photo's full row: at most that many neighbours.
C2_ShrinkEqualsDirectTopK ==
    call.op = "make_graphs" =>
        \A g \in 1..Len(graphs) : \A photo \in Photos :
            /\ Len(graphs[g].working[photo]) <= graphs[g].nearest
            /\ IsTopOfRow(call.arg.similarity, photo,
                          graphs[g].working[photo], graphs[g].nearest)

\* C3: for every row the top-k selection keeps min(k, columns of the row)
\* neighbours, and no discarded weight exceeds a retained one.
C3_TopKSelection ==
    call.op = "make_graphs" =>
        \A photo \in Photos :
            IsTopOfRow(call.arg.similarity, photo, edge_dict[photo], call.arg.k)

\* C3 witness: k is below the number of columns, and a row has kept two
\* columns heavier than the one it discarded.
C3_Witness ==
    /\ call.op = "make_graphs" /\ call.arg.k = 2
    /\ \E photo \in Photos :
          /\ Len(edge_dict[photo]) = 2
          /\ \E c \in Photos \ Keys(edge_dict[photo]) : \A i \in 1..2 :
                call.arg.similarity[<<photo, c>>] < edge_dict[photo][i].weight

\* C4: a graph built from a similarity table has no self-loop: no edge of
\* add_similarity, and no entry of the top-k mapping of make_graphs, leads
\* from a photo to itself.
C4_NoSelfLoop ==
    /\ \A i \in 1..Len(es) : es[i].source # es[i].target
    /\ \A photo \in 1..Len(edge_dict) : photo \notin Keys(edge_dict[photo])
    /\ \A g \in 1..Len(graphs) : \A photo \in 1..Len(graphs[g].working) :
          photo \notin Keys(graphs[g].working[photo])

====
